---------------------------- MODULE Spec2Model ----------------------------
(***************************************************************************)
(* A model of the three notebooks of pytorch-tutorials:                    *)
(*   - the Fashion-MNIST notebook (ex1): train(), test(), epochs driver;   *)
(*   - the CIFAR-10 / LeNet notebook: the same three plus the TensorBoard  *)
(*     training loop that follows the epochs driver;                       *)
(*   - the object-detection notebook (ex3): PennFudanDataset.              *)
(* The framework (model, loss, optimizer, loader) is an external           *)
(* collaborator: the model keeps of it only what the notebooks' code can   *)
(* observe (mode flag, parameter version, accumulated gradients, the       *)
(* number and the sizes of the batches, the loss of a batch).              *)
(***************************************************************************)
EXTENDS Integers, Sequences, FiniteSets, TLC

(***************************************************************************)
(* Program constants.                                                      *)
(***************************************************************************)
epochs == 5
TbEpochs == 3
TbEvery == 1000
CifarBatchSize == 8
FmnistBatchSize == 64
CifarReportEvery == 500
FmnistReportEvery == 100
\* the number of samples held out for the test set of the detection notebook
HoldOut == 50
\* the detection notebook: epochs of the driver, batch sizes of data_loader
\* and data_loader_test
num_epochs == 5
DetBatchSize == 2
DetTestBatchSize == 1

(***************************************************************************)
(* Bounds of the model.                                                    *)
(***************************************************************************)
\* the largest number of batches of a training loader
MaxTrainBatches == 1001
\* the largest number of batches of a test loader
MaxTestBatches == 2
\* the loss of a batch is one of 0 .. LossLevels-1
LossLevels == 3
\* the largest number of files in each directory of the dataset root
MaxFiles == 2
\* width of a mask image (every image has two rows), and its largest pixel value
MaskW == 2
MaxColor == 2

VARIABLES
    \* ---- the classification notebooks ----
    nb,            \* which notebook runs: "fmnist" or "cifar"
    trainSize,     \* len(trainloader.dataset)
    testSize,      \* len(testloader.dataset)
    pc,            \* position of the notebook's control flow
    t,             \* epoch index of the epochs driver / of the TensorBoard loop
    batch,         \* index of the current training batch (batch, i)
    vbatch,        \* index of the current test / validation batch (j)
    mode,          \* model.training: "TRAIN" or "EVAL"
    paramsVer,     \* version of the model parameters (optimizer steps applied)
    gradAcc,       \* number of backward passes accumulated in the .grad fields
    fwdVer,        \* parameter version read by the last forward pass
    loss,          \* loss of the current batch
    test_loss,     \* test(): accumulated loss, then the average (a quotient)
    correct,       \* test(): correct predictions, then the accuracy (a quotient)
    running_loss,  \* TensorBoard loop: training loss since the last log
    running_vloss, \* TensorBoard loop: validation loss of the current pass
    out,           \* the last line printed / record logged
    ret,           \* the value the last finished call returned to its caller
    ops,           \* framework calls made so far for the current batch
    entryVer,      \* paramsVer when the running train()/test() was entered
    entryGrad,     \* gradAcc when the running train()/test() was entered
    signals,       \* progress lines printed by the running train()
    \* ---- the object-detection notebook ----
    dirImgs,       \* os.listdir(root/PNGImages), as a set of file names
    dirMasks,      \* os.listdir(root/PedMasks), as a set of file names
    ds,            \* the PennFudanDataset object: imgs, masks, transforms
    dpc,           \* position inside __init__ / __getitem__
    idx,           \* argument of the running __getitem__
    paths,         \* img_path and mask_path of the running __getitem__
    mask,          \* the decoded mask image: mask[row][col]
    obj_ids,       \* instance ids, ascending
    masks,         \* one boolean grid per instance id
    boxes,         \* the boxes list built by the loop
    target,        \* the target dict built by __getitem__
    sample,        \* what the finished __getitem__ returned
    derr,          \* the exception the last call ended with, or "none"
    \* ---- a loader, and test() called twice in a row on it ----
    dsize,         \* len(dataloader.dataset)
    bsz,           \* batch_size of the loader
    shuffle,       \* shuffle flag of the loader
    lpc,           \* position of the caller of test()
    sampleLoss,    \* loss of each sample under the (fixed) parameters
    order,         \* order in which the sampler of the running pass yields indices
    yielded,       \* the batches (of indices) the running pass has yielded
    evalLoss,      \* test_loss of the running test()
    evalHits,      \* correct of the running test()
    passes,        \* per finished pass: its batches and what test() printed
    \* ---- the train/test split of the object-detection notebook ----
    splitN,        \* len(dataset) when the split is made
    spc,           \* position in the cell that splits and builds the loaders
    indices,       \* torch.randperm(len(dataset)).tolist()
    trainIdx,      \* dataset.indices of the training Subset
    testIdx,       \* dataset_test.indices of the test Subset
    \* ---- the training driver of the object-detection notebook ----
    detN,          \* len(dataset) before the split
    tpc,           \* position of the driver
    epoch,         \* the loop variable of the driver
    titer,         \* batches done by the running train_one_epoch / evaluate
    events,        \* the calls the driver has made, in order
    last_epoch     \* lr_scheduler.last_epoch: the steps the scheduler has made

hvars == <<nb, trainSize, testSize, pc, t, batch, vbatch, mode, paramsVer,
           gradAcc, fwdVer, loss, test_loss, correct, running_loss,
           running_vloss, out, ret, ops, entryVer, entryGrad, signals>>
dvars == <<dirImgs, dirMasks, ds, dpc, idx, paths, mask, obj_ids, masks,
           boxes, target, sample, derr>>
lvars == <<dsize, bsz, shuffle, lpc, sampleLoss, order, yielded, evalLoss,
           evalHits, passes>>
svars == <<splitN, spc, indices, trainIdx, testIdx>>
tvars == <<detN, tpc, epoch, titer, events, last_epoch>>
vars == <<hvars, dvars, lvars, svars, tvars>>


(***************************************************************************)
(* The framework, as far as the notebooks observe it.                      *)
(***************************************************************************)
\* the value of a call that ends without a return statement
None == [kind |-> "None"]

\* batch_size of the notebook's loaders
batch_size(n) == IF n = "cifar" THEN CifarBatchSize ELSE FmnistBatchSize

\* the K of "if batch % K == 0" in train()
ReportEvery(n) == IF n = "cifar" THEN CifarReportEvery ELSE FmnistReportEvery

\* a faulty variant: the loader built with drop_last=True
LoaderLenDropLast(N, B) == N \div B

\* len(dataloader) of a loader over N samples (drop_last is False)
LoaderLen(N, B) == (N + B - 1) \div B

\* len(X) of batch j of a loader over N samples
BatchLen(N, B, j) == IF (j + 1) * B <= N THEN B ELSE N - j * B

\* loss_fn(model(X), y).item() for batch j under parameter version ver
loss_fn(ver, j) == (ver + j) % LossLevels

\* (pred.argmax(1) == y).sum().item() for a batch j of len samples
NumCorrectOverCount(ver, j, len) == (ver + j) % (len + 2)
NumCorrect(ver, j, len) == (ver + j) % (len + 1)

\* Python numbers as exact quotients: x is [num, den]
Rat(n) == [num |-> n, den |-> 1]
RatAdd(x, n) == [num |-> x.num + n * x.den, den |-> x.den]
RatDiv(x, n) == [num |-> x.num, den |-> x.den * n]
RatEq(x, y) == x.num * y.den = y.num * x.den
RatPlus(x, y) == [num |-> x.num * y.den + y.num * x.den, den |-> x.den * y.den]

TrainLen == LoaderLen(trainSize, batch_size(nb))
TestLen == LoaderLen(testSize, batch_size(nb))

\* dataset sizes the run is tried on: one short batch, a full batch followed
\* by a short one, the largest loader (its last batch one sample short) and,
\* for the notebook with the TensorBoard loop, two full logging periods
TrainSizes(n) ==
    {1, batch_size(n) + 1, MaxTrainBatches * batch_size(n) - 1}
        \cup (IF n = "cifar" THEN {2 * TbEvery * batch_size(n)} ELSE {})
\* an empty test set can be wrapped by the sequential loader of ex1 only
TestSizes(n) ==
    {(k - 1) * batch_size(n) + 1 : k \in 1..MaxTestBatches}
        \cup (IF n = "fmnist" THEN {0} ELSE {})

\* no dataset, no call, no result
NoDataset == [kind |-> "none"]
NoPaths == [kind |-> "none"]
NoTarget == [kind |-> "none"]
NoSample == [kind |-> "none"]

\* the object-detection notebook is not running
IdleDataset ==
    /\ dirImgs = {} /\ dirMasks = {} /\ ds = NoDataset /\ dpc = "off"
    /\ idx = 0 /\ paths = NoPaths /\ mask = <<>> /\ obj_ids = <<>>
    /\ masks = <<>> /\ boxes = <<>> /\ target = NoTarget
    /\ sample = NoSample /\ derr = "none"

\* no loader is being iterated
IdleLoader ==
    /\ dsize = 0 /\ bsz = 0 /\ shuffle = FALSE /\ lpc = "off"
    /\ sampleLoss = <<>> /\ order = <<>> /\ yielded = <<>>
    /\ evalLoss = Rat(0) /\ evalHits = 0 /\ passes = <<>>

\* the split cell of the object-detection notebook is not running
IdleSplit ==
    /\ splitN = 0 /\ spc = "off" /\ indices = <<>>
    /\ trainIdx = <<>> /\ testIdx = <<>>

\* the driver of the object-detection notebook is not running
IdleDriver ==
    /\ detN = 0 /\ tpc = "off" /\ epoch = 0 /\ titer = 0 /\ events = <<>>
    /\ last_epoch = 0

Init ==
    /\ nb \in {"fmnist", "cifar"}
    /\ trainSize \in TrainSizes(nb)
    /\ testSize \in TestSizes(nb)
    /\ pc = "drv" /\ t = 0 /\ batch = 0 /\ vbatch = 0
    /\ mode = "TRAIN"
    /\ paramsVer = 0 /\ gradAcc = 0 /\ fwdVer = 0 /\ loss = 0
    /\ test_loss = Rat(0) /\ correct = Rat(0)
    /\ running_loss = 0 /\ running_vloss = 0
    /\ out = [kind |-> "none"]
    /\ ret = [fn |-> "none", val |-> None]
    /\ ops = <<>>
    /\ entryVer = 0 /\ entryGrad = 0 /\ signals = 0
    /\ IdleDataset /\ IdleLoader /\ IdleSplit /\ IdleDriver

(***************************************************************************)
(* The epochs driver: for t in range(epochs): train(...); test(...)        *)
(***************************************************************************)
\* a faulty variant: the driver leaves its loop one epoch early
DriverNextStopsEarly ==
    /\ pc = "drv"
    /\ IF t < epochs - 1
         THEN /\ pc' = "tr_enter"
              /\ out' = [kind |-> "epoch", n |-> t + 1]
              /\ t' = t
         ELSE /\ pc' = IF nb = "cifar" THEN "tb_image" ELSE "done"
              /\ out' = [kind |-> "Done!"]
              /\ t' = 0
    /\ UNCHANGED <<nb, trainSize, testSize, batch, vbatch, mode, paramsVer,
                   gradAcc, fwdVer, loss, test_loss, correct, running_loss,
                   running_vloss, ret, ops, entryVer, entryGrad>>
    /\ UNCHANGED <<signals, dvars, lvars, svars, tvars>>

\* for t in range(epochs): print the epoch, call train(); after the loop: Done!
DriverNext ==
    /\ pc = "drv"
    /\ IF t < epochs
         THEN /\ pc' = "tr_enter"
              /\ out' = [kind |-> "epoch", n |-> t + 1]
              /\ t' = t
         ELSE /\ pc' = IF nb = "cifar" THEN "tb_image" ELSE "done"
              /\ out' = [kind |-> "Done!"]
              /\ t' = 0
    /\ UNCHANGED <<nb, trainSize, testSize, batch, vbatch, mode, paramsVer,
                   gradAcc, fwdVer, loss, test_loss, correct, running_loss,
                   running_vloss, ret, ops, entryVer, entryGrad>>
    /\ UNCHANGED <<signals, dvars, lvars, svars, tvars>>

(***************************************************************************)
(* train(dataloader, model, loss_fn, optimizer)                            *)
(***************************************************************************)
\* size = len(dataloader.dataset); model.train(); first iteration of the loop
TrainEnter ==
    /\ pc = "tr_enter"
    /\ mode' = "TRAIN"
    /\ batch' = 0
    /\ signals' = 0
    /\ entryVer' = paramsVer /\ entryGrad' = gradAcc
    /\ pc' = IF TrainLen > 0 THEN "tr_fwd" ELSE "tr_ret"
    /\ UNCHANGED <<nb, trainSize, testSize, t, vbatch, paramsVer, gradAcc,
                   fwdVer, loss, test_loss, correct, running_loss,
                   running_vloss, out, ret, ops>>
    /\ UNCHANGED <<dvars, lvars, svars, tvars>>

\* pred = model(X)
TrainForward ==
    /\ pc = "tr_fwd"
    /\ fwdVer' = paramsVer
    /\ ops' = <<"forward">>
    /\ pc' = "tr_loss"
    /\ UNCHANGED <<nb, trainSize, testSize, t, batch, vbatch, mode, paramsVer,
                   gradAcc, loss, test_loss, correct, running_loss,
                   running_vloss, out, ret, entryVer, entryGrad>>
    /\ UNCHANGED <<signals, dvars, lvars, svars, tvars>>

\* loss = loss_fn(pred, y)
TrainLoss ==
    /\ pc = "tr_loss"
    /\ loss' = loss_fn(fwdVer, batch)
    /\ ops' = Append(ops, "loss")
    /\ pc' = "tr_zero"
    /\ UNCHANGED <<nb, trainSize, testSize, t, batch, vbatch, mode, paramsVer,
                   gradAcc, fwdVer, test_loss, correct, running_loss,
                   running_vloss, out, ret, entryVer, entryGrad>>
    /\ UNCHANGED <<signals, dvars, lvars, svars, tvars>>

\* a faulty variant: backpropagation is forgotten, the step follows zero_grad
TrainZeroGradSkipsBackward ==
    /\ pc = "tr_zero"
    /\ gradAcc' = 0
    /\ ops' = Append(ops, "zero_grad")
    /\ pc' = "tr_step"
    /\ UNCHANGED <<nb, trainSize, testSize, t, batch, vbatch, mode, paramsVer,
                   fwdVer, loss, test_loss, correct, running_loss,
                   running_vloss, out, ret, entryVer, entryGrad>>
    /\ UNCHANGED <<signals, dvars, lvars, svars, tvars>>

\* optimizer.zero_grad()
TrainZeroGrad ==
    /\ pc = "tr_zero"
    /\ gradAcc' = 0
    /\ ops' = Append(ops, "zero_grad")
    /\ pc' = "tr_bwd"
    /\ UNCHANGED <<nb, trainSize, testSize, t, batch, vbatch, mode, paramsVer,
                   fwdVer, loss, test_loss, correct, running_loss,
                   running_vloss, out, ret, entryVer, entryGrad>>
    /\ UNCHANGED <<signals, dvars, lvars, svars, tvars>>

\* loss.backward(): the gradients are added to the .grad fields
TrainBackward ==
    /\ pc = "tr_bwd"
    /\ gradAcc' = gradAcc + 1
    /\ ops' = Append(ops, "backward")
    /\ pc' = "tr_step"
    /\ UNCHANGED <<nb, trainSize, testSize, t, batch, vbatch, mode, paramsVer,
                   fwdVer, loss, test_loss, correct, running_loss,
                   running_vloss, out, ret, entryVer, entryGrad>>
    /\ UNCHANGED <<signals, dvars, lvars, svars, tvars>>

\* optimizer.step(): the parameters get a new version
TrainStep ==
    /\ pc = "tr_step"
    /\ paramsVer' = paramsVer + 1
    /\ ops' = Append(ops, "step")
    /\ pc' = "tr_report"
    /\ UNCHANGED <<nb, trainSize, testSize, t, batch, vbatch, mode, gradAcc,
                   fwdVer, loss, test_loss, correct, running_loss,
                   running_vloss, out, ret, entryVer, entryGrad>>
    /\ UNCHANGED <<signals, dvars, lvars, svars, tvars>>

\* a faulty variant: reports at the last batch of every K, as the TensorBoard
\* loop does (i % 1000 == 999)
TrainReportAtEndOfK ==
    /\ pc = "tr_report"
    /\ out' = IF batch % ReportEvery(nb) = ReportEvery(nb) - 1
                THEN [kind |-> "progress", loss |-> loss,
                      current |-> batch * BatchLen(trainSize, batch_size(nb), batch),
                      size |-> trainSize]
                ELSE out
    /\ signals' = IF batch % ReportEvery(nb) = ReportEvery(nb) - 1 THEN signals + 1 ELSE signals
    /\ batch' = batch + 1
    /\ pc' = IF batch + 1 < TrainLen THEN "tr_fwd" ELSE "tr_ret"
    /\ UNCHANGED <<nb, trainSize, testSize, t, vbatch, mode, paramsVer,
                   gradAcc, fwdVer, loss, test_loss, correct, running_loss,
                   running_vloss, ret, ops, entryVer, entryGrad>>
    /\ UNCHANGED <<dvars, lvars, svars, tvars>>

\* if batch % K == 0: print(loss, batch * len(X), size); then the next batch
TrainReport ==
    /\ pc = "tr_report"
    /\ out' = IF batch % ReportEvery(nb) = 0
                THEN [kind |-> "progress", loss |-> loss,
                      current |-> batch * BatchLen(trainSize, batch_size(nb), batch),
                      size |-> trainSize]
                ELSE out
    /\ signals' = IF batch % ReportEvery(nb) = 0 THEN signals + 1 ELSE signals
    /\ batch' = batch + 1
    /\ pc' = IF batch + 1 < TrainLen THEN "tr_fwd" ELSE "tr_ret"
    /\ UNCHANGED <<nb, trainSize, testSize, t, vbatch, mode, paramsVer,
                   gradAcc, fwdVer, loss, test_loss, correct, running_loss,
                   running_vloss, ret, ops, entryVer, entryGrad>>
    /\ UNCHANGED <<dvars, lvars, svars, tvars>>

\* the function body ends: train() returns None; the driver calls test()
TrainReturn ==
    /\ pc = "tr_ret"
    /\ ret' = [fn |-> "train", val |-> None]
    /\ pc' = "te_enter"
    /\ UNCHANGED <<nb, trainSize, testSize, t, batch, vbatch, mode, paramsVer,
                   gradAcc, fwdVer, loss, test_loss, correct, running_loss,
                   running_vloss, out, ops, entryVer, entryGrad>>
    /\ UNCHANGED <<signals, dvars, lvars, svars, tvars>>

(***************************************************************************)
(* test(dataloader, model, loss_fn)                                        *)
(***************************************************************************)
\* size, num_batches; model.eval(); test_loss, correct = 0, 0
TestEnter ==
    /\ pc = "te_enter"
    /\ mode' = "EVAL"
    /\ test_loss' = Rat(0) /\ correct' = Rat(0)
    /\ vbatch' = 0
    /\ entryVer' = paramsVer /\ entryGrad' = gradAcc
    /\ pc' = IF TestLen > 0 THEN "te_fwd" ELSE "te_avg"
    /\ UNCHANGED <<nb, trainSize, testSize, t, batch, paramsVer, gradAcc,
                   fwdVer, loss, running_loss, running_vloss, out, ret, ops>>
    /\ UNCHANGED <<signals, dvars, lvars, svars, tvars>>

\* a faulty variant: the evaluation pass also takes an optimizer step
TestForwardSteps ==
    /\ pc = "te_fwd"
    /\ fwdVer' = paramsVer
    /\ paramsVer' = paramsVer + 1
    /\ ops' = <<"forward", "step">>
    /\ pc' = "te_acc"
    /\ UNCHANGED <<nb, trainSize, testSize, t, batch, vbatch, mode,
                   gradAcc, loss, test_loss, correct, running_loss,
                   running_vloss, out, ret, entryVer, entryGrad>>
    /\ UNCHANGED <<signals, dvars, lvars, svars, tvars>>

\* with torch.no_grad(): pred = model(X)
TestForward ==
    /\ pc = "te_fwd"
    /\ fwdVer' = paramsVer
    /\ ops' = <<"forward">>
    /\ pc' = "te_acc"
    /\ UNCHANGED <<nb, trainSize, testSize, t, batch, vbatch, mode, paramsVer,
                   gradAcc, loss, test_loss, correct, running_loss,
                   running_vloss, out, ret, entryVer, entryGrad>>
    /\ UNCHANGED <<signals, dvars, lvars, svars, tvars>>

\* test_loss += loss_fn(pred, y).item(); correct += (hits of the batch)
TestAccumulate ==
    /\ pc = "te_acc"
    /\ test_loss' = RatAdd(test_loss, loss_fn(fwdVer, vbatch))
    /\ correct' = RatAdd(correct,
                     NumCorrect(fwdVer, vbatch,
                                BatchLen(testSize, batch_size(nb), vbatch)))
    /\ ops' = Append(ops, "loss")
    /\ vbatch' = vbatch + 1
    /\ pc' = IF vbatch + 1 < TestLen THEN "te_fwd" ELSE "te_avg"
    /\ UNCHANGED <<nb, trainSize, testSize, t, batch, mode, paramsVer,
                   gradAcc, fwdVer, loss, running_loss, running_vloss, out,
                   ret, entryVer, entryGrad>>
    /\ UNCHANGED <<signals, dvars, lvars, svars, tvars>>

\* a faulty variant: the loss is averaged over the samples, not over the batches
TestAverageBySize ==
    /\ pc = "te_avg"
    /\ IF TestLen = 0
         THEN /\ pc' = "error"
              /\ out' = [kind |-> "ZeroDivisionError"]
              /\ UNCHANGED <<test_loss, correct>>
         ELSE /\ test_loss' = RatDiv(test_loss, testSize)
              /\ correct' = RatDiv(correct, testSize)
              /\ out' = [kind |-> "test", acc |-> correct', avg |-> test_loss']
              /\ pc' = "te_ret"
    /\ UNCHANGED <<nb, trainSize, testSize, t, batch, vbatch, mode, paramsVer,
                   gradAcc, fwdVer, loss, running_loss, running_vloss, ret,
                   ops, entryVer, entryGrad>>
    /\ UNCHANGED <<signals, dvars, lvars, svars, tvars>>

\* a faulty variant: an empty loader is reported as zero loss, zero accuracy
TestAverageSkipsEmpty ==
    /\ pc = "te_avg"
    /\ IF TestLen = 0
         THEN /\ out' = [kind |-> "test", acc |-> correct, avg |-> test_loss]
              /\ pc' = "te_ret"
              /\ UNCHANGED <<test_loss, correct>>
         ELSE /\ test_loss' = RatDiv(test_loss, TestLen)
              /\ correct' = RatDiv(correct, testSize)
              /\ out' = [kind |-> "test", acc |-> correct', avg |-> test_loss']
              /\ pc' = "te_ret"
    /\ UNCHANGED <<nb, trainSize, testSize, t, batch, vbatch, mode, paramsVer,
                   gradAcc, fwdVer, loss, running_loss, running_vloss, ret,
                   ops, entryVer, entryGrad>>
    /\ UNCHANGED <<signals, dvars, lvars, svars, tvars>>

\* test_loss /= num_batches; correct /= size; print(accuracy, average loss)
TestAverage ==
    /\ pc = "te_avg"
    /\ IF TestLen = 0
         THEN /\ pc' = "error"
              /\ out' = [kind |-> "ZeroDivisionError"]
              /\ UNCHANGED <<test_loss, correct>>
         ELSE /\ test_loss' = RatDiv(test_loss, TestLen)
              /\ correct' = RatDiv(correct, testSize)
              /\ out' = [kind |-> "test", acc |-> correct', avg |-> test_loss']
              /\ pc' = "te_ret"
    /\ UNCHANGED <<nb, trainSize, testSize, t, batch, vbatch, mode, paramsVer,
                   gradAcc, fwdVer, loss, running_loss, running_vloss, ret,
                   ops, entryVer, entryGrad>>
    /\ UNCHANGED <<signals, dvars, lvars, svars, tvars>>

\* the function body ends after the print: test() returns None to the driver
TestReturn ==
    /\ pc = "te_ret"
    /\ ret' = [fn |-> "test", val |-> None]
    /\ t' = t + 1
    /\ pc' = "drv"
    /\ UNCHANGED <<nb, trainSize, testSize, batch, vbatch, mode, paramsVer,
                   gradAcc, fwdVer, loss, test_loss, correct, running_loss,
                   running_vloss, out, ops, entryVer, entryGrad>>
    /\ UNCHANGED <<signals, dvars, lvars, svars, tvars>>

(***************************************************************************)
(* The TensorBoard training loop of the CIFAR notebook.                    *)
(***************************************************************************)
\* writer.add_image('Four Fashion-MNIST Images', img_grid): a record is logged
WriterAddImage ==
    /\ pc = "tb_image"
    /\ out' = [kind |-> "image", tag |-> "Four Fashion-MNIST Images"]
    /\ pc' = "tb_len"
    /\ UNCHANGED <<nb, trainSize, testSize, t, batch, vbatch, mode, paramsVer,
                   gradAcc, fwdVer, loss, test_loss, correct, running_loss,
                   running_vloss, ret, ops, entryVer, entryGrad>>
    /\ UNCHANGED <<signals, dvars, lvars, svars, tvars>>

\* print(len(testloader)), the first statement of the cell of the loop
TbPrintLen ==
    /\ pc = "tb_len"
    /\ out' = [kind |-> "len", n |-> TestLen]
    /\ pc' = "tb_epoch"
    /\ UNCHANGED <<nb, trainSize, testSize, t, batch, vbatch, mode, paramsVer,
                   gradAcc, fwdVer, loss, test_loss, correct, running_loss,
                   running_vloss, ret, ops, entryVer, entryGrad>>
    /\ UNCHANGED <<signals, dvars, lvars, svars, tvars>>

\* the next training batch of the loop, or the next epoch
TbAdvance ==
    IF batch + 1 < TrainLen
      THEN /\ batch' = batch + 1 /\ pc' = "tb_zero" /\ t' = t
      ELSE /\ batch' = batch + 1 /\ pc' = "tb_epoch" /\ t' = t + 1

\* for epoch in range(3): running_loss = 0.0; first batch of the epoch
TbEpoch ==
    /\ pc = "tb_epoch"
    /\ IF t < TbEpochs
         THEN /\ running_loss' = 0
              /\ batch' = 0
              /\ pc' = IF TrainLen > 0 THEN "tb_zero" ELSE "tb_epoch"
              /\ t' = IF TrainLen > 0 THEN t ELSE t + 1
              /\ out' = out
         ELSE /\ pc' = "tb_graph"
              /\ out' = [kind |-> "Finished Training"]
              /\ UNCHANGED <<running_loss, batch, t>>
    /\ UNCHANGED <<nb, trainSize, testSize, vbatch, mode, paramsVer, gradAcc,
                   fwdVer, loss, test_loss, correct, running_vloss, ret, ops,
                   entryVer, entryGrad>>
    /\ UNCHANGED <<signals, dvars, lvars, svars, tvars>>

\* images, labels = dataiter.next(); writer.add_graph(model, images): the
\* model is traced on one fresh batch (a forward pass, nothing else) and a
\* record is logged; the notebook ends here
WriterAddGraph ==
    /\ pc = "tb_graph"
    /\ fwdVer' = paramsVer
    /\ ops' = <<"forward">>
    /\ out' = [kind |-> "graph"]
    /\ pc' = "done"
    /\ UNCHANGED <<nb, trainSize, testSize, t, batch, vbatch, mode, paramsVer,
                   gradAcc, loss, test_loss, correct, running_loss,
                   running_vloss, ret, entryVer, entryGrad>>
    /\ UNCHANGED <<signals, dvars, lvars, svars, tvars>>

\* a faulty variant: the loop does not clear the gradients
TbZeroGradKeepsGradients ==
    /\ pc = "tb_zero"
    /\ gradAcc' = gradAcc
    /\ ops' = <<"zero_grad">>
    /\ pc' = "tb_fwd"
    /\ UNCHANGED <<nb, trainSize, testSize, t, batch, vbatch, mode, paramsVer,
                   fwdVer, loss, test_loss, correct, running_loss,
                   running_vloss, out, ret, entryVer, entryGrad>>
    /\ UNCHANGED <<signals, dvars, lvars, svars, tvars>>

\* optimizer.zero_grad()
TbZeroGrad ==
    /\ pc = "tb_zero"
    /\ gradAcc' = 0
    /\ ops' = <<"zero_grad">>
    /\ pc' = "tb_fwd"
    /\ UNCHANGED <<nb, trainSize, testSize, t, batch, vbatch, mode, paramsVer,
                   fwdVer, loss, test_loss, correct, running_loss,
                   running_vloss, out, ret, entryVer, entryGrad>>
    /\ UNCHANGED <<signals, dvars, lvars, svars, tvars>>

\* outputs = model(inputs)
TbForward ==
    /\ pc = "tb_fwd"
    /\ fwdVer' = paramsVer
    /\ ops' = Append(ops, "forward")
    /\ pc' = "tb_loss"
    /\ UNCHANGED <<nb, trainSize, testSize, t, batch, vbatch, mode, paramsVer,
                   gradAcc, loss, test_loss, correct, running_loss,
                   running_vloss, out, ret, entryVer, entryGrad>>
    /\ UNCHANGED <<signals, dvars, lvars, svars, tvars>>

\* loss = loss_fn(outputs, labels)
TbLoss ==
    /\ pc = "tb_loss"
    /\ loss' = loss_fn(fwdVer, batch)
    /\ ops' = Append(ops, "loss")
    /\ pc' = "tb_bwd"
    /\ UNCHANGED <<nb, trainSize, testSize, t, batch, vbatch, mode, paramsVer,
                   gradAcc, fwdVer, test_loss, correct, running_loss,
                   running_vloss, out, ret, entryVer, entryGrad>>
    /\ UNCHANGED <<signals, dvars, lvars, svars, tvars>>

\* loss.backward()
TbBackward ==
    /\ pc = "tb_bwd"
    /\ gradAcc' = gradAcc + 1
    /\ ops' = Append(ops, "backward")
    /\ pc' = "tb_step"
    /\ UNCHANGED <<nb, trainSize, testSize, t, batch, vbatch, mode, paramsVer,
                   fwdVer, loss, test_loss, correct, running_loss,
                   running_vloss, out, ret, entryVer, entryGrad>>
    /\ UNCHANGED <<signals, dvars, lvars, svars, tvars>>

\* optimizer.step()
TbStep ==
    /\ pc = "tb_step"
    /\ paramsVer' = paramsVer + 1
    /\ ops' = Append(ops, "step")
    /\ pc' = "tb_run"
    /\ UNCHANGED <<nb, trainSize, testSize, t, batch, vbatch, mode, gradAcc,
                   fwdVer, loss, test_loss, correct, running_loss,
                   running_vloss, out, ret, entryVer, entryGrad>>
    /\ UNCHANGED <<signals, dvars, lvars, svars, tvars>>

\* running_loss += loss.item(); if i % 1000 == 999: validate, else next batch
TbRunning ==
    /\ pc = "tb_run"
    /\ running_loss' = running_loss + loss
    /\ IF batch % TbEvery = TbEvery - 1
         THEN /\ pc' = "tb_val_enter"
              /\ out' = [kind |-> "Batch", n |-> batch + 1]
              /\ UNCHANGED <<batch, t>>
         ELSE /\ TbAdvance
              /\ out' = out
    /\ UNCHANGED <<nb, trainSize, testSize, vbatch, mode, paramsVer, gradAcc,
                   fwdVer, loss, test_loss, correct, running_vloss, ret, ops,
                   entryVer, entryGrad>>
    /\ UNCHANGED <<signals, dvars, lvars, svars, tvars>>

\* running_vloss = 0.0; model.train(False); first validation batch
TbValEnter ==
    /\ pc = "tb_val_enter"
    /\ running_vloss' = 0
    /\ mode' = "EVAL"
    /\ vbatch' = 0
    /\ pc' = IF TestLen > 0 THEN "tb_val_fwd" ELSE "tb_val_exit"
    /\ UNCHANGED <<nb, trainSize, testSize, t, batch, paramsVer, gradAcc,
                   fwdVer, loss, test_loss, correct, running_loss, out, ret,
                   ops, entryVer, entryGrad>>
    /\ UNCHANGED <<signals, dvars, lvars, svars, tvars>>

\* voutputs = model(vinputs)
TbValForward ==
    /\ pc = "tb_val_fwd"
    /\ fwdVer' = paramsVer
    /\ ops' = <<"forward">>
    /\ pc' = "tb_val_acc"
    /\ UNCHANGED <<nb, trainSize, testSize, t, batch, vbatch, mode, paramsVer,
                   gradAcc, loss, test_loss, correct, running_loss,
                   running_vloss, out, ret, entryVer, entryGrad>>
    /\ UNCHANGED <<signals, dvars, lvars, svars, tvars>>

\* vloss = loss_fn(voutputs, vlabels); running_vloss += vloss.item()
TbValAccumulate ==
    /\ pc = "tb_val_acc"
    /\ running_vloss' = running_vloss + loss_fn(fwdVer, vbatch)
    /\ ops' = Append(ops, "loss")
    /\ vbatch' = vbatch + 1
    /\ pc' = IF vbatch + 1 < TestLen THEN "tb_val_fwd" ELSE "tb_val_exit"
    /\ UNCHANGED <<nb, trainSize, testSize, t, batch, mode, paramsVer,
                   gradAcc, fwdVer, loss, test_loss, correct, running_loss,
                   out, ret, entryVer, entryGrad>>
    /\ UNCHANGED <<signals, dvars, lvars, svars, tvars>>

\* model.train(True)
TbValExit ==
    /\ pc = "tb_val_exit"
    /\ mode' = "TRAIN"
    /\ pc' = "tb_log"
    /\ UNCHANGED <<nb, trainSize, testSize, t, batch, vbatch, paramsVer,
                   gradAcc, fwdVer, loss, test_loss, correct, running_loss,
                   running_vloss, out, ret, ops, entryVer, entryGrad>>
    /\ UNCHANGED <<signals, dvars, lvars, svars, tvars>>

\* a faulty variant: running_loss is not reset after the log
TbLogKeepsRunningLoss ==
    /\ pc = "tb_log"
    /\ IF TestLen = 0
         THEN /\ pc' = "error"
              /\ out' = [kind |-> "ZeroDivisionError"]
              /\ UNCHANGED <<running_loss, batch, t>>
         ELSE /\ out' = [kind |-> "scalars",
                         Training |-> RatDiv(Rat(running_loss), TbEvery),
                         Validation |-> RatDiv(Rat(running_vloss), TestLen),
                         step |-> t * TrainLen + batch]
              /\ running_loss' = running_loss
              /\ TbAdvance
    /\ UNCHANGED <<nb, trainSize, testSize, vbatch, mode, paramsVer, gradAcc,
                   fwdVer, loss, test_loss, correct, running_vloss, ret, ops,
                   entryVer, entryGrad>>
    /\ UNCHANGED <<signals, dvars, lvars, svars, tvars>>

\* avg_loss, avg_vloss; writer.add_scalars(...); running_loss = 0.0
TbLog ==
    /\ pc = "tb_log"
    /\ IF TestLen = 0
         THEN /\ pc' = "error"
              /\ out' = [kind |-> "ZeroDivisionError"]
              /\ UNCHANGED <<running_loss, batch, t>>
         ELSE /\ out' = [kind |-> "scalars",
                         Training |-> RatDiv(Rat(running_loss), TbEvery),
                         Validation |-> RatDiv(Rat(running_vloss), TestLen),
                         step |-> t * TrainLen + batch]
              /\ running_loss' = 0
              /\ TbAdvance
    /\ UNCHANGED <<nb, trainSize, testSize, vbatch, mode, paramsVer, gradAcc,
                   fwdVer, loss, test_loss, correct, running_vloss, ret, ops,
                   entryVer, entryGrad>>
    /\ UNCHANGED <<signals, dvars, lvars, svars, tvars>>

Next ==
    \/ DriverNext
    \/ TrainEnter \/ TrainForward \/ TrainLoss \/ TrainZeroGrad
    \/ TrainBackward \/ TrainStep \/ TrainReport \/ TrainReturn
    \/ TestEnter \/ TestForward \/ TestAccumulate \/ TestAverage \/ TestReturn
    \/ WriterAddImage \/ TbPrintLen
    \/ TbEpoch \/ TbZeroGrad \/ TbForward \/ TbLoss \/ TbBackward \/ TbStep
    \/ TbRunning \/ TbValEnter \/ TbValForward \/ TbValAccumulate
    \/ TbValExit \/ TbLog
    \/ WriterAddGraph

Spec == Init /\ [][Next]_vars

(***************************************************************************)
(* Claims about train(), test() and the drivers, checked under Spec.       *)
(***************************************************************************)
\* the order of the five framework calls the specification gives for a batch
TrainOrder == <<"forward", "loss", "zero_grad", "backward", "step">>

\* how many of the five calls are done when train() stands at position p
TrainDone(p) ==
    CASE p = "tr_loss" -> 1
      [] p = "tr_zero" -> 2
      [] p = "tr_bwd" -> 3
      [] p = "tr_step" -> 4
      [] p = "tr_report" -> 5
      [] OTHER -> 0

TrainBodyPcs == {"tr_loss", "tr_zero", "tr_bwd", "tr_step", "tr_report"}
TestPcs == {"te_fwd", "te_acc", "te_avg", "te_ret"}

\* C1: in train() the calls of a batch are made in the order forward, loss,
\* zero_grad, backward, step; the step of batch k is complete before the
\* forward pass of batch k+1, which reads the parameters that step wrote.
C1_TrainStepOrder ==
    /\ pc \in TrainBodyPcs => ops = SubSeq(TrainOrder, 1, TrainDone(pc))
    /\ pc \in TrainBodyPcs => fwdVer = entryVer + batch
    /\ pc = "tr_report" => paramsVer = entryVer + batch + 1
    /\ (pc = "tr_fwd" /\ batch > 0) =>
           /\ ops = TrainOrder
           /\ paramsVer = entryVer + batch

\* C1 witness: the second batch's forward pass has read the first batch's step
C1_Witness ==
    /\ pc = "tr_loss" /\ batch = 1
    /\ fwdVer = entryVer + 1

\* the calls the framework has seen for the current evaluation batch
OpsSeen == {ops[i] : i \in DOMAIN ops}

\* C2: test() never mutates the parameters nor the accumulated gradients:
\* during the call and when it has returned both equal their values at
\* entry, and no zero_grad, backward or step is made inside it.
C2_TestKeepsParameters ==
    /\ (pc \in TestPcs \/ (pc = "drv" /\ ret.fn = "test")) =>
           /\ paramsVer = entryVer
           /\ gradAcc = entryGrad
    /\ (pc = "te_acc" \/ (pc \in TestPcs /\ vbatch > 0)) =>
           OpsSeen \subseteq {"forward", "loss"}

\* C2 witness: a test() over two batches has returned on a trained model
C2_Witness ==
    /\ pc = "drv" /\ ret.fn = "test"
    /\ vbatch = 2 /\ paramsVer > 0 /\ gradAcc > 0

\* C3 as claimed: every optimizer step is applied in TRAIN mode (the state
\* right after a step still has the mode the step ran in).
C3_StepOnlyInTrainMode ==
    pc \in {"tr_report", "tb_run"} => mode = "TRAIN"

RECURSIVE SumLoss(_, _)
\* the sum of the batch losses of the first n batches under version ver
SumLoss(ver, n) ==
    IF n = 0 THEN 0 ELSE SumLoss(ver, n - 1) + loss_fn(ver, n - 1)

RECURSIVE SumCorrect(_, _)
\* the number of correctly predicted samples in the first n test batches
SumCorrect(ver, n) ==
    IF n = 0 THEN 0
    ELSE SumCorrect(ver, n - 1)
           + NumCorrect(ver, n - 1, BatchLen(testSize, batch_size(nb), n - 1))

ExpectedAvg == [num |-> SumLoss(paramsVer, TestLen), den |-> TestLen]
ExpectedAcc == [num |-> SumCorrect(paramsVer, TestLen), den |-> testSize]

\* C4 as claimed: test() returns the pair (average_loss, accuracy).
C4_TestReturnsPair ==
    (pc = "drv" /\ ret.fn = "test") =>
        /\ ret.val.kind = "pair"
        /\ RatEq(ret.val.avg, ExpectedAvg)
        /\ RatEq(ret.val.acc, ExpectedAcc)

\* C4 amended: over a loader with at least one batch test() computes
\* average_loss = (sum of the batch losses) / (number of batches) and
\* accuracy = (correct predictions) / (samples of the dataset), prints both
\* and returns None.
C4_TestPrintsAverages ==
    /\ (pc = "te_ret" \/ (pc = "drv" /\ ret.fn = "test")) =>
           /\ out.kind = "test"
           /\ RatEq(out.avg, ExpectedAvg)
           /\ RatEq(out.acc, ExpectedAcc)
           /\ out.avg.den = TestLen /\ out.acc.den = testSize
    /\ (pc = "drv" /\ ret.fn = "test") => ret.val = None

\* C4 witness: a test() over two batches, the second shorter, has returned
C4_Witness ==
    /\ pc = "drv" /\ ret.fn = "test"
    /\ TestLen = 2 /\ testSize % batch_size(nb) # 0
    /\ out.avg.num > 0

(***************************************************************************)
(* PennFudanDataset (object-detection notebook).                           *)
(* File names are tuples of character codes, compared as Python compares   *)
(* strings; a mask image is a grid mask[row][col] of pixel values, two     *)
(* rows high.  A returned sample records the target the transform hook     *)
(* gave back and the transforms it was handed to, in order; of the         *)
(* transforms only the random flip changes a target.                       *)
(***************************************************************************)
\* ".png" and "_mask.png"
PngSuffix == <<46, 112, 110, 103>>
MaskSuffix == <<95, 109, 97, 115, 107>> \o PngSuffix

\* the ids the files of a root may carry: "a", "a_b", "b", "c"
IdPool == << <<97>>, <<97, 95, 98>>, <<98>>, <<99>> >>

\* the first n file names of each directory
ImageNames(n) == {IdPool[k] \o PngSuffix : k \in 1..n}
MaskNames(n) == {IdPool[k] \o MaskSuffix : k \in 1..n}

RECURSIVE LexLess(_, _)
\* a < b for two Python strings
LexLess(a, b) ==
    IF a = <<>> THEN b # <<>>
    ELSE IF b = <<>> THEN FALSE
    ELSE IF Head(a) # Head(b) THEN Head(a) < Head(b)
    ELSE LexLess(Tail(a), Tail(b))

RECURSIVE SortedNames(_)
\* list(sorted(names))
SortedNames(S) ==
    IF S = {} THEN <<>>
    ELSE LET least == CHOOSE x \in S : \A y \in S \ {x} : LexLess(x, y)
         IN <<least>> \o SortedNames(S \ {least})

RECURSIVE SortedInts(_)
\* the values of a set of pixel values, ascending
SortedInts(S) ==
    IF S = {} THEN <<>>
    ELSE LET least == CHOOSE x \in S : \A y \in S : x <= y
         IN <<least>> \o SortedInts(S \ {least})

\* a faulty variant: a list index that rejects negative indices
PyIndexNoNegative(lst, i) ==
    IF 0 <= i /\ i < Len(lst) THEN [ok |-> TRUE, val |-> lst[i + 1]]
    ELSE [ok |-> FALSE, val |-> <<>>]

\* lst[i] of a Python list: negative indices count from the end
PyIndex(lst, i) ==
    IF 0 <= i /\ i < Len(lst) THEN [ok |-> TRUE, val |-> lst[i + 1]]
    ELSE IF i < 0 /\ -Len(lst) <= i
           THEN [ok |-> TRUE, val |-> lst[Len(lst) + i + 1]]
    ELSE [ok |-> FALSE, val |-> <<>>]

\* row and column indices of a mask image
Rows == {0, 1}
Cols == 0..(MaskW - 1)
\* the mask images a mask file may decode to
Grids == [Rows -> [Cols -> 0..MaxColor]]

\* np.unique(mask)
Unique(img) == SortedInts({img[r][c] : r \in Rows, c \in Cols})

\* obj_ids = obj_ids[1:]
DropFirst(ids) == IF ids = <<>> THEN <<>> ELSE Tail(ids)

\* a faulty variant: a mask takes every pixel at or above its id
SplitMasksAtLeast(img, ids) ==
    [k \in 1..Len(ids) |-> [r \in Rows |-> [c \in Cols |-> img[r][c] >= ids[k]]]]

\* masks = mask == obj_ids[:, None, None]
SplitMasks(img, ids) ==
    [k \in 1..Len(ids) |-> [r \in Rows |-> [c \in Cols |-> img[r][c] = ids[k]]]]

\* np.where(m): the (row, column) pairs of the true pixels
Where(m) == {rc \in Rows \X Cols : m[rc[1]][rc[2]]}

MinOf(S) == CHOOSE x \in S : \A y \in S : x <= y
MaxOf(S) == CHOOSE x \in S : \A y \in S : y <= x

\* a faulty variant: the box is half-open, its far edges one past the last pixel
BoxOfHalfOpen(m) ==
    LET pos == Where(m)
        rows == {rc[1] : rc \in pos}
        cols == {rc[2] : rc \in pos}
    IN <<MinOf(cols), MinOf(rows), MaxOf(cols) + 1, MaxOf(rows) + 1>>

\* a faulty variant: rows and columns change places
BoxOfSwappedAxes(m) ==
    LET pos == Where(m)
        rows == {rc[1] : rc \in pos}
        cols == {rc[2] : rc \in pos}
    IN <<MinOf(rows), MinOf(cols), MaxOf(rows), MaxOf(cols)>>

\* [xmin, ymin, xmax, ymax] of one mask that has a true pixel
BoxOf(m) ==
    LET pos == Where(m)
        rows == {rc[1] : rc \in pos}
        cols == {rc[2] : rc \in pos}
    IN <<MinOf(cols), MinOf(rows), MaxOf(cols), MaxOf(rows)>>

RECURSIVE KeepThick(_)
\* the boxes of a list that are more than one pixel wide and high
KeepThick(bs) ==
    IF bs = <<>> THEN <<>>
    ELSE (IF Head(bs)[3] > Head(bs)[1] /\ Head(bs)[4] > Head(bs)[2]
            THEN <<Head(bs)>> ELSE <<>>) \o KeepThick(Tail(bs))

\* a faulty variant: instances without a proper box are skipped
BoxLoopSkipsThin(ms) ==
    IF \E i \in 1..Len(ms) : Where(ms[i]) = {}
      THEN [ok |-> FALSE, val |-> <<>>]
      ELSE [ok |-> TRUE,
            val |-> KeepThick([i \in 1..Len(ms) |-> BoxOf(ms[i])])]

\* for i in range(num_objs): ...; boxes.append([xmin, ymin, xmax, ymax])
\* np.min of an empty array raises ValueError
BoxLoop(ms) ==
    IF \E i \in 1..Len(ms) : Where(ms[i]) = {}
      THEN [ok |-> FALSE, val |-> <<>>]
      ELSE [ok |-> TRUE, val |-> [i \in 1..Len(ms) |-> BoxOf(ms[i])]]

\* a faulty variant: the sides of the area are taken across the axes
AreaOfMixedAxes(b) == (b[4] - b[1]) * (b[3] - b[2])

\* area = (boxes[:, 3] - boxes[:, 1]) * (boxes[:, 2] - boxes[:, 0])
AreaOf(b) == (b[4] - b[2]) * (b[3] - b[1])

\* a faulty variant: the flip is appended whatever train is
get_transformAlwaysFlips(train) == <<"ToTensor", "RandomHorizontalFlip">>

\* get_transform(train): the transforms of the Compose, in order
get_transform(train) ==
    <<"ToTensor">> \o (IF train THEN <<"RandomHorizontalFlip">> ELSE <<>>)

\* the transforms argument a dataset is constructed with
TransformChoices ==
    {[kind |-> "None"],
     [kind |-> "Compose", transforms |-> get_transform(TRUE)],
     [kind |-> "Compose", transforms |-> get_transform(FALSE)]}

\* len(dataset)
\* a faulty variant: the length is taken from the mask list
DatasetLenOfMasks == Len(ds.masks)

\* __len__: return len(self.imgs)
DatasetLen == Len(ds.imgs)

IdleHarness ==
    /\ nb = "none" /\ trainSize = 0 /\ testSize = 0 /\ pc = "off"
    /\ t = 0 /\ batch = 0 /\ vbatch = 0 /\ mode = "TRAIN"
    /\ paramsVer = 0 /\ gradAcc = 0 /\ fwdVer = 0 /\ loss = 0
    /\ test_loss = Rat(0) /\ correct = Rat(0)
    /\ running_loss = 0 /\ running_vloss = 0
    /\ out = [kind |-> "none"]
    /\ ret = [fn |-> "none", val |-> None]
    /\ ops = <<>> /\ entryVer = 0 /\ entryGrad = 0 /\ signals = 0

\* a dataset root on disk, before PennFudanDataset(root, transforms)
InitDataset ==
    /\ IdleHarness /\ IdleLoader /\ IdleSplit /\ IdleDriver
    /\ \E n \in 0..MaxFiles : dirImgs = ImageNames(n)
    /\ \E n \in 0..MaxFiles : dirMasks = MaskNames(n)
    /\ ds = NoDataset /\ dpc = "new"
    /\ idx = 0 /\ paths = NoPaths /\ mask = <<>> /\ obj_ids = <<>>
    /\ masks = <<>> /\ boxes = <<>> /\ target = NoTarget
    /\ sample = NoSample /\ derr = "none"

\* PennFudanDataset.__init__(root, transforms)
DatasetInit ==
    /\ dpc = "new"
    /\ \E tr \in TransformChoices :
         ds' = [kind |-> "dataset", transforms |-> tr,
                imgs |-> SortedNames(dirImgs), masks |-> SortedNames(dirMasks)]
    /\ dpc' = "ready"
    /\ UNCHANGED <<dirImgs, dirMasks, idx, paths, mask, obj_ids, masks, boxes,
                   target, sample, derr>>
    /\ UNCHANGED <<hvars, lvars, svars, tvars>>

\* __getitem__(idx): img_path, mask_path = ... self.imgs[idx], self.masks[idx]
GetItemLookup ==
    /\ dpc = "ready"
    /\ \E i \in (-(MaxFiles + 1))..(MaxFiles + 1) :
         /\ idx' = i
         /\ LET im == PyIndex(ds.imgs, i)
                mk == PyIndex(ds.masks, i)
            IN IF im.ok /\ mk.ok
                 THEN /\ paths' = [kind |-> "paths", img |-> im.val, mask |-> mk.val]
                      /\ dpc' = "open"
                      /\ derr' = "none"
                 ELSE /\ paths' = NoPaths
                      /\ dpc' = "raised"
                      /\ derr' = "IndexError"
    /\ mask' = <<>> /\ obj_ids' = <<>> /\ masks' = <<>> /\ boxes' = <<>>
    /\ target' = NoTarget /\ sample' = NoSample
    /\ UNCHANGED <<dirImgs, dirMasks, ds>>
    /\ UNCHANGED <<hvars, lvars, svars, tvars>>

\* the call is over (return img, target, or the exception has left it): its
\* locals are gone and the dataset takes the next __getitem__
GetItemEnd ==
    /\ dpc \in {"returned", "raised"}
    /\ dpc' = "ready"
    /\ idx' = 0 /\ paths' = NoPaths /\ derr' = "none"
    /\ mask' = <<>> /\ obj_ids' = <<>> /\ masks' = <<>> /\ boxes' = <<>>
    /\ target' = NoTarget /\ sample' = NoSample
    /\ UNCHANGED <<dirImgs, dirMasks, ds>>
    /\ UNCHANGED <<hvars, lvars, svars, tvars>>

\* mask = np.array(Image.open(mask_path)); obj_ids; masks
GetItemDecode ==
    /\ dpc = "open"
    /\ \E img \in Grids :
         LET ids == DropFirst(Unique(img))
         IN /\ mask' = img
            /\ obj_ids' = ids
            /\ masks' = SplitMasks(img, ids)
    /\ dpc' = "boxes"
    /\ UNCHANGED <<dirImgs, dirMasks, ds, idx, paths, boxes, target, sample,
                   derr>>
    /\ UNCHANGED <<hvars, lvars, svars, tvars>>

\* num_objs = len(obj_ids); the loop that fills boxes
GetItemBoxes ==
    /\ dpc = "boxes"
    /\ LET got == BoxLoop(masks)
       IN IF got.ok
            THEN /\ boxes' = got.val
                 /\ dpc' = "tensors"
                 /\ derr' = derr
            ELSE /\ boxes' = <<>>
                 /\ dpc' = "raised"
                 /\ derr' = "ValueError"
    /\ UNCHANGED <<dirImgs, dirMasks, ds, idx, paths, mask, obj_ids, masks,
                   target, sample>>
    /\ UNCHANGED <<hvars, lvars, svars, tvars>>

\* A horizontal flip of an image of width MaskW sends the column x of a box
\* to MaskW - 1 - x when x is read as the index of a pixel and to MaskW - x
\* when it is read as the coordinate of an edge.  Which of the two the flip
\* of the transform does is written in no cell of the notebook, so both are
\* kept: off is 1 for the first reading and 0 for the second.
FlipOffsets == {0, 1}

\* the flip on a box: xmin and xmax are mirrored and change places, the
\* rows stay
FlipBox(b, off) == <<MaskW - off - b[3], b[2], MaskW - off - b[1], b[4]>>

\* the flip on a mask: every row is mirrored
FlipMask(m) == [r \in Rows |-> [c \in Cols |-> m[r][MaskW - 1 - c]]]

\* the target after a flip that was drawn: boxes and masks are mirrored,
\* the other entries stay
FlipTarget(tg, off) ==
    [tg EXCEPT !.boxes = [k \in 1..Len(tg.boxes) |-> FlipBox(tg.boxes[k], off)],
               !.masks = [k \in 1..Len(tg.masks) |-> FlipMask(tg.masks[k])]]

\* the transform tr holds the random flip
HasFlip(tr) ==
    /\ tr.kind = "Compose"
    /\ \E k \in 1..Len(tr.transforms) : tr.transforms[k] = "RandomHorizontalFlip"

\* self.transforms(img, target): the targets the call may give; the flip is
\* drawn with probability 0.5, so the target as built and the flipped
\* target are both possible
TransformOutcomes(tr, tg) ==
    IF HasFlip(tr)
      THEN {tg} \cup {FlipTarget(tg, off) : off \in FlipOffsets}
      ELSE {tg}

\* the tensors and the target dict; self.transforms(img, target); return.
\* boxes[:, 3] of the tensor made from an empty list raises IndexError.
\* The flip writes the boxes tensor in place and makes new masks.
GetItemTarget ==
    /\ dpc = "tensors"
    /\ LET num_objs == Len(obj_ids)
       IN IF Len(boxes) = 0
            THEN /\ dpc' = "raised"
                 /\ derr' = "IndexError"
                 /\ UNCHANGED <<target, sample, boxes>>
            ELSE /\ target' \in TransformOutcomes(ds.transforms,
                      [kind |-> "target",
                       boxes |-> boxes,
                       labels |-> [k \in 1..num_objs |-> 1],
                       masks |-> masks,
                       image_id |-> idx,
                       area |-> [k \in 1..Len(boxes) |-> AreaOf(boxes[k])],
                       iscrowd |-> [k \in 1..num_objs |-> 0]])
                 /\ boxes' = target'.boxes
                 /\ sample' =
                      [kind |-> "sample", img |-> paths.img,
                       target |-> target',
                       transformed_by |-> IF ds.transforms.kind = "None"
                                            THEN <<>>
                                            ELSE ds.transforms.transforms]
                 /\ dpc' = "returned"
                 /\ derr' = derr
    /\ UNCHANGED <<dirImgs, dirMasks, ds, idx, paths, mask, obj_ids, masks>>
    /\ UNCHANGED <<hvars, lvars, svars, tvars>>

NextDataset ==
    \/ DatasetInit
    \/ GetItemLookup
    \/ GetItemDecode
    \/ GetItemBoxes
    \/ GetItemTarget
    \/ GetItemEnd

SpecDataset == InitDataset /\ [][NextDataset]_vars

(***************************************************************************)
(* Claims about PennFudanDataset, checked under SpecDataset.               *)
(***************************************************************************)
\* C5 as claimed: a root whose two directories hold different numbers of
\* files yields no dataset object: construction ends in an error.
C5_MismatchFailsConstruction ==
    (dpc # "new" /\ Cardinality(dirImgs) # Cardinality(dirMasks)) =>
        /\ ds.kind # "dataset"
        /\ derr # "none"

\* i is a valid index of a Python list, counted from either end
InRange(lst, i) == -Len(lst) <= i /\ i < Len(lst)

\* the running or finished __getitem__ got past its two list lookups
LookupPassed == dpc \in {"open", "boxes", "tensors", "returned"}
\* a __getitem__ has been called on the dataset
Called == dpc \in {"open", "boxes", "tensors", "returned", "raised"}

\* C6 as claimed: __getitem__(index) succeeds only when 0 <= index < len.
C6_OnlyNonNegativeIndices ==
    dpc = "returned" => (0 <= idx /\ idx < DatasetLen)

\* C6 amended: the file lookup of __getitem__(index) passes exactly when
\* -len <= index < len holds for both file lists, a negative index selecting
\* entry index + len; every other index ends in IndexError with no sample.
C6_IndexRange ==
    /\ Called =>
          (paths # NoPaths <=> (InRange(ds.imgs, idx) /\ InRange(ds.masks, idx)))
    /\ (Called /\ paths = NoPaths) =>
          /\ dpc = "raised"
          /\ derr = "IndexError"
          /\ sample = NoSample
    /\ LookupPassed =>
          /\ paths.img = ds.imgs[(idx % Len(ds.imgs)) + 1]
          /\ paths.mask = ds.masks[(idx % Len(ds.masks)) + 1]
    /\ dpc = "returned" => sample.target.image_id = idx

\* C6 witness: a call with a negative index has returned the last sample
C6_Witness ==
    /\ dpc = "returned" /\ idx = -1
    /\ Len(ds.imgs) = 2
    /\ sample.img = ds.imgs[2]

\* the distinct non-background values of a mask image
NonZeroValues(img) == {img[r][c] : r \in Rows, c \in Cols} \ {0}

\* C7 as claimed: the returned masks are one per distinct non-zero pixel
\* value, also for an image without background, and mask k is true exactly
\* at the pixels carrying the k-th such value.
C7_OneMaskPerNonzeroValue ==
    dpc = "returned" =>
        /\ Len(sample.target.masks) = Cardinality(NonZeroValues(mask))
        /\ \A k \in 1..Len(sample.target.masks) : \A r \in Rows : \A c \in Cols :
              sample.target.masks[k][r][c]
                  <=> (mask[r][c] = SortedInts(NonZeroValues(mask))[k])

\* the box b is tight around the mask m: every true pixel of m lies inside
\* b and each of the four edges of b touches a true pixel of m
Tight(b, m) ==
    /\ b[1] \in Cols /\ b[3] \in Cols /\ b[2] \in Rows /\ b[4] \in Rows
    /\ \E r \in Rows : m[r][b[1]]
    /\ \E r \in Rows : m[r][b[3]]
    /\ \E c \in Cols : m[b[2]][c]
    /\ \E c \in Cols : m[b[4]][c]
    /\ \A r \in Rows : \A c \in Cols :
          m[r][c] => (b[1] <= c /\ c <= b[3] /\ b[2] <= r /\ r <= b[4])

C9_BoxesStrict ==
    dpc = "returned" =>
        /\ Len(sample.target.masks) = Cardinality(NonZeroValues(mask))
        /\ Len(sample.target.boxes) = Cardinality(NonZeroValues(mask))
        /\ \A k \in 1..Len(sample.target.boxes) :
              /\ sample.target.boxes[k][3] > sample.target.boxes[k][1]
              /\ sample.target.boxes[k][4] > sample.target.boxes[k][2]

\* C9 amended: a returned target has as many boxes as masks, one per
\* distinct pixel value but the smallest; every box has xmax >= xmin and
\* ymax >= ymin, with equality exactly for an instance one pixel wide (high).
C9_BoxesNonStrict ==
    dpc = "returned" =>
        /\ Len(sample.target.masks) = Len(Unique(mask)) - 1
        /\ Len(sample.target.boxes) = Len(sample.target.masks)
        /\ \A k \in 1..Len(sample.target.boxes) :
              LET b == sample.target.boxes[k]
                  pos == Where(sample.target.masks[k])
              IN /\ b[3] >= b[1] /\ b[4] >= b[2]
                 /\ b[3] = b[1] <=> Cardinality({rc[2] : rc \in pos}) = 1
                 /\ b[4] = b[2] <=> Cardinality({rc[1] : rc \in pos}) = 1

\* C9 witness: background and two colours, one instance a single pixel
C9_Witness ==
    /\ dpc = "returned"
    /\ 0 \in {mask[r][c] : r \in Rows, c \in Cols}
    /\ Cardinality(NonZeroValues(mask)) = 2
    /\ Len(sample.target.boxes) = 2
    /\ \E k \in 1..2 : /\ sample.target.boxes[k][3] = sample.target.boxes[k][1]
                       /\ sample.target.boxes[k][4] = sample.target.boxes[k][2]

\* C10: an instance mask without a true pixel is never dropped silently: a
\* call that met one has ended in an error, and a returned target has a box
\* for every mask.
C10_NoSilentDrop ==
    /\ (dpc \in {"tensors", "returned", "raised"}
          /\ \E k \in 1..Len(masks) : Where(masks[k]) = {}) =>
              (dpc = "raised" /\ derr = "ValueError" /\ sample = NoSample)
    /\ dpc \in {"tensors", "returned"} => Len(boxes) = Len(masks)
    /\ dpc = "returned" =>
          /\ Len(sample.target.boxes) = Len(sample.target.masks)
          /\ Len(sample.target.masks) = Len(masks)
          /\ \A k \in 1..Len(masks) :
                sample.target.masks[k] \in {masks[k], FlipMask(masks[k])}

\* C10 witness: a returned target with two instances, one of them a row of
\* two pixels, the other a single pixel
C10_Witness ==
    /\ dpc = "returned"
    /\ Len(sample.target.masks) = 2
    /\ \E k \in 1..2 : Cardinality(Where(sample.target.masks[k])) = 1
    /\ \E k \in 1..2 : sample.target.boxes[k][3] > sample.target.boxes[k][1]


(***************************************************************************)
(* A loader, and test() called twice in a row on it.                       *)
(* DataLoader(dataset, batch_size=B, shuffle=s): every pass asks the       *)
(* sampler for an order of the indices (the dataset order, or a fresh      *)
(* random permutation when shuffle is on) and yields consecutive runs of   *)
(* B of them; the last run holds what is left (drop_last is False).        *)
(* test() is followed per sample here: CrossEntropyLoss is the mean of the *)
(* losses of the samples of the batch, and a sample counts as correct      *)
(* when its loss is 0.                                                     *)
(***************************************************************************)
\* the largest dataset and the largest batch size of the loader
MaxN == 10
MaxB == 4
\* the largest dataset whose shuffled orders and sample losses are enumerated
MaxShuffleN == 3
\* the losses a sample can have: 0 (predicted right) or 1
SampleLossValues == {0, 1}

\* all orders of the elements of S
RECURSIVE Perms(_)
Perms(S) ==
    IF S = {} THEN {<<>>}
    ELSE UNION {{<<x>> \o p : p \in Perms(S \ {x})} : x \in S}

\* a faulty variant: the sequential sampler walks the dataset backwards
SequentialOrderBackwards(N) == [i \in 1..N |-> N - i]

\* SequentialSampler: range(len(dataset))
SequentialOrder(N) == [i \in 1..N |-> i - 1]

\* a faulty variant: the random sampler draws with replacement
SamplerOrdersWithReplacement(N, shuf) ==
    IF shuf THEN [1..N -> 0..(N - 1)] ELSE {SequentialOrder(N)}

\* iter(sampler): the orders one pass can follow
SamplerOrders(N, shuf) ==
    IF shuf THEN Perms(0..(N - 1)) ELSE {SequentialOrder(N)}

\* batch j of a pass that follows ord
BatchOf(ord, B, j) ==
    SubSeq(ord, j * B + 1, j * B + BatchLen(Len(ord), B, j))

\* sum of f[k] over k in 1..n
RECURSIVE SumTo(_, _)
SumTo(f, n) == IF n = 0 THEN 0 ELSE f[n] + SumTo(f, n - 1)

\* loss_fn(pred, y).item() of a batch b of indices: the mean over its samples
BatchMean(b) ==
    [num |-> SumTo([k \in 1..Len(b) |-> sampleLoss[b[k] + 1]], Len(b)),
     den |-> Len(b)]

\* (pred.argmax(1) == y).sum().item() of a batch b of indices
BatchHits(b) == Cardinality({k \in 1..Len(b) : sampleLoss[b[k] + 1] = 0})

\* the sample losses a dataset of N samples is tried with
SampleLosses(N) ==
    IF N <= MaxShuffleN
      THEN [1..N -> SampleLossValues]
      ELSE {[i \in 1..N |-> (i - 1) % 2]}

InitLoader ==
    /\ IdleHarness /\ IdleDataset /\ IdleSplit /\ IdleDriver
    /\ dsize \in 1..MaxN
    /\ bsz \in 1..MaxB
    /\ shuffle \in BOOLEAN
    /\ shuffle => dsize <= MaxShuffleN
    /\ sampleLoss \in SampleLosses(dsize)
    /\ lpc = "call"
    /\ order = <<>> /\ yielded = <<>>
    /\ evalLoss = Rat(0) /\ evalHits = 0 /\ passes = <<>>

\* test(dataloader, model, loss_fn) is called: size, num_batches, model.eval(),
\* test_loss, correct = 0, 0; the for statement asks the loader for an iterator
EvalEnter ==
    /\ lpc = "call"
    /\ Len(passes) < 2
    /\ order' \in SamplerOrders(dsize, shuffle)
    /\ yielded' = <<>>
    /\ evalLoss' = Rat(0) /\ evalHits' = 0
    /\ lpc' = "iter"
    /\ UNCHANGED <<dsize, bsz, shuffle, sampleLoss, passes>>
    /\ UNCHANGED <<hvars, dvars, svars, tvars>>

\* the loader yields the next batch; test_loss += loss_fn(pred, y).item();
\* correct += (pred.argmax(1) == y).type(torch.float).sum().item()
EvalBatch ==
    /\ lpc = "iter"
    /\ Len(yielded) < LoaderLen(dsize, bsz)
    /\ LET b == BatchOf(order, bsz, Len(yielded))
       IN /\ yielded' = Append(yielded, b)
          /\ evalLoss' = RatPlus(evalLoss, BatchMean(b))
          /\ evalHits' = evalHits + BatchHits(b)
    /\ UNCHANGED <<dsize, bsz, shuffle, lpc, sampleLoss, order, passes>>
    /\ UNCHANGED <<hvars, dvars, svars, tvars>>

\* the loader is exhausted; test_loss /= num_batches; correct /= size; print
EvalAverage ==
    /\ lpc = "iter"
    /\ Len(yielded) = LoaderLen(dsize, bsz)
    /\ passes' = Append(passes,
                        [batches |-> yielded,
                         avg |-> RatDiv(evalLoss, LoaderLen(dsize, bsz)),
                         acc |-> [num |-> evalHits, den |-> dsize]])
    /\ lpc' = "call"
    /\ UNCHANGED <<dsize, bsz, shuffle, sampleLoss, order, yielded, evalLoss,
                   evalHits>>
    /\ UNCHANGED <<hvars, dvars, svars, tvars>>

NextLoader == EvalEnter \/ EvalBatch \/ EvalAverage

SpecLoader == InitLoader /\ [][NextLoader]_vars

\* sizes of the batches of a sequence of batches
BatchSizes(bs) == [j \in 1..Len(bs) |-> Len(bs[j])]

\* C11: a pass over a loader of N samples in batches of B yields ceil(N/B)
\* batches; every batch but the last holds B samples, the last holds N mod B
\* (B when B divides N), and the sizes add up to N.
C11_BatchCountAndSizes ==
    \A p \in 1..Len(passes) :
        LET bs == passes[p].batches
            M == Len(bs)
            r == dsize % bsz
        IN /\ M = (dsize \div bsz) + (IF r = 0 THEN 0 ELSE 1)
           /\ \A j \in 1..(M - 1) : Len(bs[j]) = bsz
           /\ Len(bs[M]) = (IF r = 0 THEN bsz ELSE r)
           /\ SumTo(BatchSizes(bs), M) = dsize

\* a pass over 10 samples in batches of 4 has ended with batches of 4, 4, 2
C11_Witness ==
    /\ dsize = 10 /\ bsz = 4 /\ Len(passes) >= 1
    /\ BatchSizes(passes[1].batches) = <<4, 4, 2>>


\* the indices of a sequence of batches, in the order they were yielded
RECURSIVE Flatten(_)
Flatten(bs) == IF bs = <<>> THEN <<>> ELSE Head(bs) \o Flatten(Tail(bs))

\* C12: in every pass, with shuffle on or off, the batches cover the dataset
\* exactly once: no index is yielded twice while the pass runs, and a finished
\* pass has yielded every index 0..N-1 exactly once; the next pass does so again.
C12_CoverageOncePerPass ==
    /\ LET f == Flatten(yielded)
       IN /\ \A a \in 1..Len(f) : f[a] \in 0..(dsize - 1)
          /\ \A a, b \in 1..Len(f) : a # b => f[a] # f[b]
    /\ \A p \in 1..Len(passes) :
          LET f == Flatten(passes[p].batches)
          IN /\ Len(f) = dsize
             /\ {f[k] : k \in 1..Len(f)} = 0..(dsize - 1)

\* two shuffled passes over 3 samples in batches of 2 have ended, and the
\* second one yielded other batches than the first
C12_Witness ==
    /\ shuffle /\ dsize = 3 /\ bsz = 2 /\ Len(passes) = 2
    /\ passes[1].batches # passes[2].batches

\* indices j*B .. min((j+1)*B, N) - 1, in dataset order (j counts from 0)
DatasetRun(N, B, j) ==
    [k \in 1..((IF (j + 1) * B < N THEN (j + 1) * B ELSE N) - j * B)
        |-> j * B + k - 1]

\* C13: with shuffle off, batch j of a pass holds the indices
\* j*B .. min((j+1)*B, N) - 1 in dataset order, and two full passes yield the
\* same sequence of batches.
C13_SequentialBatches ==
    ~shuffle =>
       /\ \A j \in 1..Len(yielded) : yielded[j] = DatasetRun(dsize, bsz, j - 1)
       /\ \A p \in 1..Len(passes) :
             \A j \in 1..Len(passes[p].batches) :
                passes[p].batches[j] = DatasetRun(dsize, bsz, j - 1)
       /\ Len(passes) = 2 => passes[1].batches = passes[2].batches

\* two passes without shuffle over 10 samples in batches of 4 have ended
C13_Witness ==
    /\ ~shuffle /\ dsize = 10 /\ bsz = 4 /\ Len(passes) = 2
    /\ passes[2].batches = <<<<0, 1, 2, 3>>, <<4, 5, 6, 7>>, <<8, 9>>>>


(***************************************************************************)
(* The train/test split of the object-detection notebook:                  *)
(*   indices = torch.randperm(len(dataset)).tolist()                       *)
(*   dataset = Subset(dataset, indices[:-50])                              *)
(*   dataset_test = Subset(dataset_test, indices[-50:])                    *)
(* followed by the construction of the two loaders.                        *)
(***************************************************************************)
\* the largest len(dataset) the split is tried on
MaxSplitN == 52
\* the permutations tried beside the seeded one: those of the generator
\* advanced by 1 .. MaxShift draws, and every permutation of up to
\* MaxShift + 2 indices
MaxShift == 2

\* the first 32-bit outputs of the generator after torch.manual_seed(1), each
\* as <<high 16 bits, low 16 bits>>
Seed1Draws ==
   <<
   <<27329, 62501>>, <<65351, 33003>>, <<47207, 12172>>, <<61116, 5192>>,
      <<7, 32511>>, <<8396, 50057>>, <<19813, 43723>>, <<65473, 7813>>,
      <<9617, 52047>>, <<15472, 21440>>, <<6051, 32912>>, <<25990, 20609>>,
      <<12206, 49100>>, <<25422, 7751>>, <<22646, 43757>>, <<43892, 31228>>,
      <<26002, 36230>>, <<61311, 32025>>, <<35311, 58546>>, <<55463, 54548>>,
      <<27472, 21758>>, <<20530, 45413>>, <<44906, 35730>>, <<34376, 51668>>,
      <<13398, 64395>>, <<29062, 8444>>, <<57548, 19946>>, <<15045, 37532>>,
      <<1794, 57245>>, <<35023, 22926>>, <<43939, 49714>>, <<59897, 27204>>,
      <<27348, 31959>>, <<29963, 24535>>, <<36614, 19433>>, <<28226, 17137>>,
      <<9200, 26103>>, <<61546, 44510>>, <<12982, 51040>>, <<51012, 33878>>,
      <<52477, 39053>>, <<46921, 55273>>, <<63455, 64905>>, <<52609, 33799>>,
      <<20540, 37183>>, <<6081, 52029>>, <<45372, 3606>>, <<33957, 42297>>,
      <<57435, 2561>>, <<56689, 63360>>, <<58628, 61756>>, <<54338, 63697>>,
      <<5573, 29960>>, <<54368, 58072>>, <<2559, 32397>>, <<17894, 39539>>,
      <<11130, 431>>, <<3882, 36842>>, <<57549, 62073>>, <<43943, 47560>>,
      <<6445, 16926>>, <<38867, 9287>>, <<27597, 46467>>, <<44017, 34246>>
   >>

\* generator->random() % m for a 32-bit draw d
DrawMod(d, m) == ((d[1] % m) * (65536 % m) + d[2]) % m

\* r with the entries at positions i and j exchanged
Swap(r, i, j) ==
    [k \in 1..Len(r) |-> IF k = i THEN r[j] ELSE IF k = j THEN r[i] ELSE r[k]]

\* the shuffle loop of randperm from position i on: entry i is exchanged
\* with entry i + (draw % (n - i)), the draws taken in order after skip
RECURSIVE RandpermLoop(_, _, _)
RandpermLoop(r, i, skip) ==
    IF i >= Len(r) - 1 THEN r
    ELSE LET z == DrawMod(Seed1Draws[skip + i + 1], Len(r) - i)
         IN RandpermLoop(Swap(r, i + 1, z + i + 1), i + 1, skip)

\* torch.randperm(N).tolist() with the generator skip draws after the seed
Randperm(N, skip) == RandpermLoop([i \in 1..N |-> i - 1], 0, skip)

\* torch.manual_seed(1); torch.randperm(N).tolist(): the permutation of the
\* seeded generator (skip 0); the result of a seed is not fixed across
\* builds of the framework, so other permutations are tried beside it
RandPerms(N) ==
    {Randperm(N, skip) : skip \in 0..MaxShift}
        \cup (IF N <= MaxShift + 2 THEN Perms(0..(N - 1)) ELSE {})

\* Python lst[:-k] for k > 0
PyDropLast(lst, k) == SubSeq(lst, 1, IF Len(lst) > k THEN Len(lst) - k ELSE 0)

\* a faulty variant: lst[:k] instead of lst[-k:]
PyTakeFirst(lst, k) == SubSeq(lst, 1, IF Len(lst) > k THEN k ELSE Len(lst))

\* Python lst[-k:] for k > 0
PyTakeLast(lst, k) ==
    SubSeq(lst, (IF Len(lst) > k THEN Len(lst) - k ELSE 0) + 1, Len(lst))

InitSplit ==
    /\ IdleHarness /\ IdleDataset /\ IdleLoader /\ IdleDriver
    /\ splitN \in 0..MaxSplitN
    /\ spc = "start"
    /\ indices = <<>> /\ trainIdx = <<>> /\ testIdx = <<>>

\* torch.manual_seed(1); indices = torch.randperm(len(dataset)).tolist()
SplitRandperm ==
    /\ spc = "start"
    /\ indices' \in RandPerms(splitN)
    /\ spc' = "perm"
    /\ UNCHANGED <<splitN, trainIdx, testIdx>>
    /\ UNCHANGED <<hvars, dvars, lvars, tvars>>

\* dataset = Subset(dataset, indices[:-50]);
\* dataset_test = Subset(dataset_test, indices[-50:])
SplitSubsets ==
    /\ spc = "perm"
    /\ trainIdx' = PyDropLast(indices, HoldOut)
    /\ testIdx' = PyTakeLast(indices, HoldOut)
    /\ spc' = "subsets"
    /\ UNCHANGED <<splitN, indices>>
    /\ UNCHANGED <<hvars, dvars, lvars, tvars>>

\* data_loader = DataLoader(dataset, batch_size=2, shuffle=True, ...);
\* data_loader_test = DataLoader(dataset_test, batch_size=1, shuffle=False, ...).
\* Whether the random sampler accepts an empty training subset depends on
\* the version of the framework: both outcomes are possible.
BuildLoaders ==
    /\ spc = "subsets"
    /\ \/ spc' = "loaders"
       \/ trainIdx = <<>> /\ spc' = "error"
    /\ UNCHANGED <<splitN, indices, trainIdx, testIdx>>
    /\ UNCHANGED <<hvars, dvars, lvars, tvars>>

NextSplit == SplitRandperm \/ SplitSubsets \/ BuildLoaders

SpecSplit == InitSplit /\ [][NextSplit]_vars

\* the split has been made
SplitMade == spc \in {"subsets", "loaders", "error"}

\* the set of elements of a sequence
Range(f) == {f[k] : k \in 1..Len(f)}

\* C14: the partition is made from one permutation; for every N, also
\* N <= 50, the training indices and the test indices are disjoint and
\* together hold every index 0..N-1 exactly once, and they stay as they were
\* made when the loaders are built.
C14_SplitIsPartition ==
    SplitMade =>
       /\ trainIdx \o testIdx = indices
       /\ Range(trainIdx) \cap Range(testIdx) = {}
       /\ Range(trainIdx) \cup Range(testIdx) = 0..(splitN - 1)
       /\ Len(trainIdx) + Len(testIdx) = splitN
       /\ Len(testIdx) = (IF splitN < HoldOut THEN splitN ELSE HoldOut)

\* a dataset of 30 samples has been split, the loaders' cell has run: the
\* training subset is empty and the test subset holds all 30 indices
C14_Witness ==
    /\ splitN = 30 /\ spc \in {"loaders", "error"}
    /\ trainIdx = <<>> /\ Len(testIdx) = 30


\* C15: test() called twice in a row on the same model and loader, with no
\* training in between, gives the same average loss and the same accuracy,
\* for every loader the notebooks build (shuffled or not, and whether or not
\* the batch size divides the dataset size).
C15_TwoCallsSameResult ==
    Len(passes) = 2 =>
       /\ RatEq(passes[1].avg, passes[2].avg)
       /\ RatEq(passes[1].acc, passes[2].acc)


(***************************************************************************)
(* The progress lines of train() and the epochs driver.                    *)
(***************************************************************************)
\* the smallest integer not below a / b
CeilDiv(a, b) == (a + b - 1) \div b

\* train() is running
TrainPcs == {"tr_fwd", "tr_ret"} \cup TrainBodyPcs

\* C16: train() prints a progress line exactly at the batches whose index is
\* a multiple of K (100 in ex1, 500 in the CIFAR notebook), batch 0 first and
\* no other batch: when b batches are done, ceil(b/K) lines are printed, so
\* ceil(M/K) for an epoch of M batches; the line of a batch is printed after
\* its optimizer step.
C16_ProgressEveryK ==
    /\ pc \in TrainPcs => signals = CeilDiv(batch, ReportEvery(nb))
    /\ pc = "tr_ret" =>
          /\ batch = TrainLen
          /\ signals = CeilDiv(TrainLen, ReportEvery(nb))
    /\ pc = "tr_report" => /\ ops = TrainOrder
                           /\ paramsVer = entryVer + batch + 1
    /\ (pc \in {"tr_fwd", "tr_ret"} /\ batch > 0
          /\ (batch - 1) % ReportEvery(nb) = 0) =>
          /\ out.kind = "progress"
          /\ out.loss = loss
          /\ ops = TrainOrder
          /\ paramsVer = entryVer + batch

\* an epoch of 1001 batches of ex1 has ended with 11 progress lines
C16_Witness ==
    /\ nb = "fmnist" /\ pc = "tr_ret"
    /\ batch = 1001 /\ signals = 11


\* samples in the first b batches of the training loader
SamplesIn(b) ==
    IF b * batch_size(nb) < trainSize THEN b * batch_size(nb) ELSE trainSize

\* C17: the count in a progress line is the number of samples processed so
\* far in the epoch, the sum of the sizes of the batches processed up to
\* that point, also when the reporting batch is a last batch smaller than B.
\* (Read generously: the count may or may not include the reporting batch.)
C17_ProgressCountsSamples ==
    (pc \in {"tr_fwd", "tr_ret"} /\ batch > 0
        /\ (batch - 1) % ReportEvery(nb) = 0) =>
        /\ out.kind = "progress"
        /\ out.current \in {SamplesIn(batch - 1), SamplesIn(batch)}


\* the epochs driver, or a train() or test() it called, is running
DriverPcs == {"drv", "tr_enter", "te_enter"} \cup TrainPcs \cup TestPcs

\* the notebook's single thread keeps running its cells
FairSpec == Spec /\ WF_vars(Next)

\* C18: the epochs driver runs, for each of the 5 epochs, one full train()
\* and then one full test(), strictly alternating; with finite datasets it
\* comes to an end, and it ends only after all the epochs or by an error no
\* code catches: there is no early stop.
C18_DriverAlternatesAndEnds ==
    /\ [](pc \in ({"tr_enter"} \cup TrainPcs) =>
             /\ t \in 0..(epochs - 1)
             /\ ret.fn = (IF t = 0 THEN "none" ELSE "test"))
    /\ [](pc \in ({"te_enter"} \cup TestPcs) =>
             /\ t \in 0..(epochs - 1)
             /\ ret.fn = "train")
    /\ [][ret' # ret =>
             IF ret.fn = "train"
               THEN /\ ret'.fn = "test" /\ vbatch = TestLen /\ t' = t + 1
               ELSE /\ ret'.fn = "train" /\ batch = TrainLen /\ t' = t]_vars
    /\ [][(pc \in DriverPcs /\ pc' \notin DriverPcs) =>
             \/ pc' = "error"
             \/ /\ t = epochs /\ ret.fn = "test"
                /\ out'.kind = "Done!"]_vars
    /\ <>(pc \notin DriverPcs)

\* the fifth test() has returned to the driver
C18_Witness ==
    /\ pc = "drv" /\ t = epochs
    /\ ret.fn = "test"


(***************************************************************************)
(* The file lists of PennFudanDataset.                                     *)
(***************************************************************************)
\* C19: len(dataset) is the number of files listed in the image directory
\* when the dataset was constructed, and neither it nor the stored file
\* lists change afterwards: after every __getitem__, returned or raised, the
\* lists are the sorted listings __init__ stored.
C19_LengthFixed ==
    ds.kind = "dataset" =>
       /\ DatasetLen = Cardinality(dirImgs)
       /\ ds.imgs = SortedNames(dirImgs)
       /\ ds.masks = SortedNames(dirMasks)

\* a __getitem__ has returned on a dataset of two images and one mask: the
\* length still is two
C19_Witness ==
    /\ dpc = "returned"
    /\ Cardinality(dirImgs) = 2 /\ Cardinality(dirMasks) = 1
    /\ DatasetLen = 2

\* the id of an image file name <id>.png and of a mask file name <id>_mask.png
IdOfImage(name) == SubSeq(name, 1, Len(name) - Len(PngSuffix))
IdOfMask(name) == SubSeq(name, 1, Len(name) - Len(MaskSuffix))

\* C20: sorting the image names and the mask names independently keeps them
\* aligned: for every set of ids whose files are <id>.png and <id>_mask.png,
\* the i-th sorted image and the i-th sorted mask belong to the same id.
C20_SortedListsAligned ==
    (ds.kind = "dataset" /\ Len(ds.imgs) = Len(ds.masks)) =>
        \A i \in 1..Len(ds.imgs) : IdOfImage(ds.imgs[i]) = IdOfMask(ds.masks[i])


(***************************************************************************)
(* The transform hook of PennFudanDataset.                                 *)
(***************************************************************************)
\* a __getitem__ is between its lookup and its return
CallRunning == dpc \in {"open", "boxes", "tensors"}

\* C21: get_transform puts tensor conversion first and appends the random
\* horizontal flip after it exactly when train is true, so the evaluation
\* transform is tensor conversion alone; __getitem__ applies the composed
\* transform to the (image, target) pair once, as its last step, and skips
\* it when transforms is None.  A returned mask differs from the mask the
\* call made only under the training transform, and then all are mirrored.
C21_TransformOrder ==
    /\ get_transform(FALSE) = <<"ToTensor">>
    /\ get_transform(TRUE) = <<"ToTensor", "RandomHorizontalFlip">>
    /\ (ds.kind = "dataset" /\ ds.transforms.kind = "Compose") =>
          ds.transforms.transforms \in
              {<<"ToTensor">>, <<"ToTensor", "RandomHorizontalFlip">>}
    /\ CallRunning => sample = NoSample
    /\ dpc = "returned" =>
          /\ sample.target = target
          /\ sample.transformed_by =
                (IF ds.transforms.kind = "None" THEN <<>>
                 ELSE ds.transforms.transforms)
          /\ sample.target.masks # masks =>
                /\ ds.transforms.kind = "Compose"
                /\ ds.transforms.transforms = get_transform(TRUE)
                /\ sample.target.masks = [k \in 1..Len(masks) |-> FlipMask(masks[k])]

\* a sample of the training dataset has been returned: converted, then
\* flipped, its masks mirrored
C21_Witness ==
    /\ dpc = "returned"
    /\ ds.transforms.kind = "Compose"
    /\ sample.transformed_by = <<"ToTensor", "RandomHorizontalFlip">>
    /\ sample.target.masks # masks


(***************************************************************************)
(* The training driver of the object-detection notebook:                   *)
(*   for epoch in range(num_epochs):                                       *)
(*       train_one_epoch(model, optimizer, data_loader, device, epoch, ..) *)
(*       lr_scheduler.step()                                               *)
(*       evaluate(model, data_loader_test, device=device)                  *)
(* train_one_epoch and evaluate come from detection/engine.py; they are    *)
(* followed batch by batch as the loops over a loader their contract       *)
(* describes.  What train_one_epoch does with the optimizer's learning     *)
(* rate is written in no cell of the notebook, so the state holds no rate: *)
(* of the scheduler it holds the count of its steps.                       *)
(***************************************************************************)
\* the largest training subset the driver is tried on
MaxDetTrain == 4

\* len(data_loader), len(data_loader_test) after the split
DetTrainLen == LoaderLen(Len(PyDropLast(SequentialOrder(detN), HoldOut)), DetBatchSize)
DetTestLen == LoaderLen(Len(PyTakeLast(SequentialOrder(detN), HoldOut)), DetTestBatchSize)

InitDriver ==
    /\ IdleHarness /\ IdleDataset /\ IdleLoader /\ IdleSplit
    /\ detN \in (HoldOut + 1)..(HoldOut + MaxDetTrain)
    /\ tpc = "loop" /\ epoch = 0 /\ titer = 0 /\ events = <<>>
    /\ last_epoch = 0

\* for epoch in range(num_epochs): train_one_epoch(...) is called
\* (epoch counts the iterations of the loop that are over)
DetLoop ==
    /\ tpc = "loop"
    /\ IF epoch < num_epochs
         THEN /\ events' = Append(events, "train_one_epoch")
              /\ titer' = 0
              /\ tpc' = "train"
         ELSE /\ tpc' = "done"
              /\ UNCHANGED <<events, titer>>
    /\ UNCHANGED <<detN, epoch, last_epoch>>
    /\ UNCHANGED <<hvars, dvars, lvars, svars>>

\* train_one_epoch: one batch of data_loader
DetTrainBatch ==
    /\ tpc = "train"
    /\ titer < DetTrainLen
    /\ titer' = titer + 1
    /\ UNCHANGED <<detN, tpc, epoch, events, last_epoch>>
    /\ UNCHANGED <<hvars, dvars, lvars, svars>>

\* train_one_epoch returns
DetTrainReturn ==
    /\ tpc = "train"
    /\ titer = DetTrainLen
    /\ tpc' = "sched"
    /\ UNCHANGED <<detN, epoch, titer, events, last_epoch>>
    /\ UNCHANGED <<hvars, dvars, lvars, svars>>

\* lr_scheduler.step()
DetSchedulerStep ==
    /\ tpc = "sched"
    /\ events' = Append(events, "lr_scheduler.step")
    /\ last_epoch' = last_epoch + 1
    /\ tpc' = "eval_call"
    /\ UNCHANGED <<detN, epoch, titer>>
    /\ UNCHANGED <<hvars, dvars, lvars, svars>>

\* evaluate(model, data_loader_test, device=device) is called
DetEvalEnter ==
    /\ tpc = "eval_call"
    /\ events' = Append(events, "evaluate")
    /\ titer' = 0
    /\ tpc' = "eval"
    /\ UNCHANGED <<detN, epoch, last_epoch>>
    /\ UNCHANGED <<hvars, dvars, lvars, svars>>

\* evaluate: one batch of data_loader_test
DetEvalBatch ==
    /\ tpc = "eval"
    /\ titer < DetTestLen
    /\ titer' = titer + 1
    /\ UNCHANGED <<detN, tpc, epoch, events, last_epoch>>
    /\ UNCHANGED <<hvars, dvars, lvars, svars>>

\* evaluate returns; the body of the driver's loop is over
DetEvalReturn ==
    /\ tpc = "eval"
    /\ titer = DetTestLen
    /\ epoch' = epoch + 1
    /\ tpc' = "loop"
    /\ UNCHANGED <<detN, titer, events, last_epoch>>
    /\ UNCHANGED <<hvars, dvars, lvars, svars>>

NextDriver ==
    \/ DetLoop \/ DetTrainBatch \/ DetTrainReturn \/ DetSchedulerStep
    \/ DetEvalEnter \/ DetEvalBatch \/ DetEvalReturn

SpecDriver == InitDriver /\ [][NextDriver]_vars

\* the calls of one iteration of the driver's loop
Cycle == <<"train_one_epoch", "lr_scheduler.step", "evaluate">>

\* n repetitions of a sequence
RECURSIVE Times(_, _)
Times(seq, n) == IF n = 0 THEN <<>> ELSE seq \o Times(seq, n - 1)

\* C22: the driver trains for 10 epochs and evaluates at the end of each:
\* when it is over, the calls made are exactly 10 repetitions of
\* train_one_epoch, lr_scheduler.step, evaluate.
C22_TenEpochs ==
    tpc = "done" => events = Times(Cycle, 10)


(***************************************************************************)
(* Gradients, the TensorBoard loop and the counters of test().             *)
(***************************************************************************)
\* how many times call c occurs in a sequence of calls
CountOf(c, seq) == Cardinality({k \in 1..Len(seq) : seq[k] = c})

\* C25: in train() and in the TensorBoard loop the gradients are cleared
\* exactly once between an optimizer step and the next backward pass (after
\* the loss in train(), before the forward pass in the TensorBoard loop), so
\* every optimizer step applies the gradients of one backward pass, the
\* current batch's, and gradients never accumulate across batches.
C25_GradientsClearedPerBatch ==
    /\ gradAcc \in {0, 1}
    /\ pc = "tr_step" =>
          /\ gradAcc = 1
          /\ ops = <<"forward", "loss", "zero_grad", "backward">>
    /\ pc = "tb_step" =>
          /\ gradAcc = 1
          /\ ops = <<"zero_grad", "forward", "loss", "backward">>
    /\ pc \in {"tr_step", "tb_step"} => CountOf("zero_grad", ops) = 1
    /\ pc \in {"tr_bwd", "tb_fwd", "tb_loss", "tb_bwd"} => gradAcc = 0

\* the second batch of the TensorBoard loop is about to be stepped
C25_Witness ==
    /\ pc = "tb_step" /\ batch = 1
    /\ gradAcc = 1 /\ paramsVer > entryVer


\* the validation pass of the TensorBoard loop is running
TbValPcs == {"tb_val_enter", "tb_val_fwd", "tb_val_acc", "tb_val_exit"}

RECURSIVE WindowLoss(_, _, _)
\* the sum of the losses of the n training batches that end with batch i,
\* whose forward pass read parameter version ver
\* (summed by halves)
WindowLoss(ver, i, n) ==
    IF n = 0 THEN 0
    ELSE IF n = 1 THEN loss_fn(ver, i)
    ELSE LET h == n \div 2
         IN WindowLoss(ver, i, h) + WindowLoss(ver - h, i - h, n - h)

\* C26: the TensorBoard loop runs a validation pass over the whole test
\* loader exactly after the training batches i with i mod 1000 = 999; the
\* logged training average is the sum of the losses of the 1000 most recent
\* training batches divided by 1000 (running_loss is reset after each log
\* and at each epoch start); the validation pass makes no optimizer step and
\* the model is back in TRAIN mode before the next training batch.
C26_ValidationEvery1000 ==
    /\ [](pc \in (TbValPcs \cup {"tb_log"}) => batch % TbEvery = TbEvery - 1)
    /\ [][pc = "tb_run" =>
             ((pc' = "tb_val_enter") <=> (batch % TbEvery = TbEvery - 1))]_vars
    /\ [](pc = "tb_log" =>
             /\ running_loss = WindowLoss(paramsVer - 1, batch, TbEvery)
             /\ vbatch = TestLen
             /\ mode = "TRAIN")
    /\ [][(pc = "tb_log" /\ pc' # "error") =>
             /\ out'.kind = "scalars"
             /\ RatEq(out'.Training, [num |-> running_loss, den |-> 1000])
             /\ running_loss' = 0
             /\ mode' = "TRAIN"]_vars
    /\ [][(pc = "tb_epoch" /\ pc' # "tb_graph") => running_loss' = 0]_vars
    /\ [][(pc \in TbValPcs) =>
             /\ paramsVer' = paramsVer
             /\ gradAcc' = gradAcc]_vars

\* the second log of an epoch of the TensorBoard loop is due: batches
\* 1000..1999 are summed, the validation pass is over
C26_Witness ==
    /\ pc = "tb_log" /\ batch = 1999
    /\ running_loss = WindowLoss(paramsVer - 1, batch, TbEvery)


(***************************************************************************)
(* The target and the masks of __getitem__.                                *)
(***************************************************************************)
\* C27: every target __getitem__(idx) returns is consistent: boxes, labels,
\* masks, area and iscrowd have num_objs entries each, in the order of the
\* instances; every label is 1 and every iscrowd flag 0; image_id is idx;
\* area[k] is (ymax - ymin) * (xmax - xmin) of boxes[k] and is not negative.
\* Entry k belongs to instance k: mask k is the k-th mask made, or its
\* mirror image after a flip, and box k starts at the top row of that mask.
C27_TargetConsistent ==
    dpc = "returned" =>
       LET n == Len(obj_ids)
           tg == sample.target
       IN /\ Len(tg.boxes) = n /\ Len(tg.labels) = n /\ Len(tg.masks) = n
          /\ Len(tg.area) = n /\ Len(tg.iscrowd) = n
          /\ tg.image_id = idx
          /\ \A k \in 1..n :
                /\ tg.labels[k] = 1
                /\ tg.iscrowd[k] = 0
                /\ (tg.masks[k] = masks[k] \/ tg.masks[k] = FlipMask(masks[k]))
                /\ tg.boxes[k][2] =
                      MinOf({r \in Rows : \E c \in Cols : masks[k][r][c]})
                /\ tg.area[k] = (tg.boxes[k][4] - tg.boxes[k][2])
                                   * (tg.boxes[k][3] - tg.boxes[k][1])
                /\ tg.area[k] >= 0

\* a target with two instances has been returned after a flip, the first
\* instance of area 1
C27_Witness ==
    /\ dpc = "returned" /\ Len(sample.target.boxes) = 2
    /\ sample.target.area[1] = 1
    /\ sample.target.masks # masks

\* C28: the instance masks __getitem__ makes of a mask image are each
\* non-empty (so the min and max of the box exist), pairwise disjoint, and
\* no pixel of value 0 (background) is true in any of them.  Stated of the
\* masks as the call makes them and as it returns them.
C28_MasksPartitionInstances ==
    (dpc \in {"boxes", "returned"}) =>
       /\ \A k \in 1..Len(masks) : \E r \in Rows, c \in Cols : masks[k][r][c]
       /\ \A r \in Rows, c \in Cols :
             /\ \A j, k \in 1..Len(masks) :
                   (masks[j][r][c] /\ masks[k][r][c]) => j = k
             /\ mask[r][c] = 0 => \A k \in 1..Len(masks) : ~masks[k][r][c]

\* an image with background and two instances has been decoded
C28_Witness ==
    /\ dpc = "returned" /\ Len(masks) = 2
    /\ \E r \in Rows, c \in Cols : mask[r][c] = 0


(***************************************************************************)
(* The counters of test().                                                 *)
(***************************************************************************)
\* the samples of the first b batches of the evaluation loader
TestSamplesIn(b) ==
    IF b * batch_size(nb) < testSize THEN b * batch_size(nb) ELSE testSize

\* C29: during and after test() the correct counter never exceeds the number
\* of samples seen so far; at the end of the loop the samples seen are
\* len(dataloader.dataset) and the loss terms accumulated are
\* len(dataloader); so the reported accuracy lies in [0, 1].
C29_TestCounters ==
    /\ (pc \in {"te_fwd", "te_acc", "te_avg"}) =>
          /\ correct.den = 1
          /\ 0 <= correct.num /\ correct.num <= TestSamplesIn(vbatch)
          /\ vbatch <= TestLen
    /\ (pc \in {"te_avg", "te_ret"}) =>
          /\ vbatch = TestLen
          /\ TestSamplesIn(vbatch) = testSize
    /\ (pc = "te_ret") =>
          /\ out.kind = "test"
          /\ out.acc.den = testSize /\ out.acc.den > 0
          /\ 0 <= out.acc.num /\ out.acc.num <= out.acc.den
          /\ out.avg.den = TestLen

\* test() has reported over two batches, the second a short one, with some
\* but not all samples correct
C29_Witness ==
    /\ pc = "te_ret" /\ TestLen = 2 /\ testSize % batch_size(nb) # 0
    /\ 0 < out.acc.num /\ out.acc.num < out.acc.den

ZeroDivision == [kind |-> "ZeroDivisionError"]

\* C30: test() on an empty loader reports no loss and no accuracy: it ends in
\* a division by zero at the averaging step, with the model in EVAL mode and
\* the parameters as they were on entry; for every non-empty loader both
\* divisions are defined and the report is made.
C30_EmptyLoaderDividesByZero ==
    /\ [][(pc = "te_avg") =>
             IF testSize = 0
               THEN /\ pc' = "error" /\ out' = ZeroDivision
                    /\ mode' = "EVAL" /\ paramsVer' = entryVer
                    /\ vbatch' = 0
               ELSE /\ pc' = "te_ret" /\ out'.kind = "test"
                    /\ out'.avg.den > 0 /\ out'.acc.den > 0]_vars
    /\ [](out = ZeroDivision =>
             /\ pc = "error" /\ testSize = 0
             /\ mode = "EVAL" /\ paramsVer = entryVer)

\* test() has failed on an empty loader after a training pass over data
C30_Witness ==
    /\ pc = "error" /\ out = ZeroDivision /\ testSize = 0
    /\ trainSize > 0 /\ paramsVer > 0

=============================================================================
